---- MODULE Spec2Model ----
(* Album retrieval route (GetAlbum.ts): parseSortOrder and the run handler,   *)
(* over a relational store of albums and files that other requests mutate.   *)
EXTENDS Integers, Sequences, FiniteSets, TLC

VARIABLES albums, fileAlbum, settings, pc, args, albumMeta, effective, orderBy, sent,
          pin, pout

vars == <<albums, fileAlbum, settings, pc, args, albumMeta, effective, orderBy, sent,
          pin, pout>>

storeVars == <<albums, fileAlbum, settings>>
reqVars == <<pc, args, albumMeta, effective, orderBy, sent>>
parseVars == <<pin, pout>>

(* ------------------------------------------------------------------------ *)
(* Strings are sequences of one-character strings, so that split(':') is     *)
(* computed character by character. null and undefined are two values that  *)
(* are no character sequence.                                               *)
(* ------------------------------------------------------------------------ *)
Null == <<"null">>
Undefined == <<"undefined">>

sCreatedAt == <<"c", "r", "e", "a", "t", "e", "d", "A", "t">>
sName == <<"n", "a", "m", "e">>
sSize == <<"s", "i", "z", "e">>
sId == <<"i", "d">>
sAsc == <<"a", "s", "c">>
sDesc == <<"d", "e", "s", "c">>
sUp == <<"u", "p">>
sUpperName == <<"N", "a", "m", "e">>
sEmpty == <<>>
sColon == <<":">>

RECURSIVE Join(_)
Join(segs) ==
  IF Len(segs) = 0 THEN <<>>
  ELSE IF Len(segs) = 1 THEN segs[1]
  ELSE segs[1] \o sColon \o Join(Tail(segs))

(* String.prototype.split(':') *)
RECURSIVE Split(_)
Split(s) ==
  IF s = <<>> THEN << <<>> >>
  ELSE LET rest == Split(Tail(s)) IN
       IF Head(s) = ":" THEN << <<>> >> \o rest
       ELSE << <<Head(s)>> \o Head(rest) >> \o Tail(rest)

(* JavaScript falsiness of a string | null | undefined *)
Falsy(s) == s = Null \/ s = Undefined \/ s = <<>>

validFields == {sCreatedAt, sName, sSize}
validDirections == {sAsc, sDesc}
defaultOrder == [field |-> sId, direction |-> sDesc]

parseSortOrder(sortOrder) ==
  IF Falsy(sortOrder) THEN defaultOrder
  ELSE LET parts == Split(sortOrder)
           field == parts[1]
           direction == IF Len(parts) >= 2 THEN parts[2] ELSE Undefined
       IN IF Falsy(field) \/ Falsy(direction) THEN defaultOrder
          ELSE IF field \notin validFields \/ direction \notin validDirections
               THEN defaultOrder
          ELSE [field |-> field, direction |-> direction]

(* ------------------------------------------------------------------------ *)
(* The relational store: albums, files and the album each file belongs to.   *)
(* ------------------------------------------------------------------------ *)
MaxPage == 2
MaxLimit == 2
DefaultPage == 1
DefaultLimit == 50

Users == {"alice", "bob"}
Uuids == {"u1", "u2", "u3"}
AlbumIds == {1, 2}
FileIds == {1, 2, 3}
NoAlbumId == 0
Slots == {1, 2}

AlbumSortOrders ==
  {Null, sEmpty, Join(<<sName, sAsc>>), Join(<<sName, sUp>>), Join(<<sName, sAsc, sUp>>)}
GlobalSortOrders == {Undefined, Join(<<sSize, sAsc>>), Join(<<sSize>>)}
HardcodedFallback == Join(<<sCreatedAt, sDesc>>)

InitAlbums ==
  (1 :> [id |-> 1, uuid |-> "u1", userId |-> "alice", name |-> "holiday",
         description |-> Null, nsfw |-> FALSE, sortOrder |-> Null])
  @@
  (2 :> [id |-> 2, uuid |-> "u2", userId |-> "bob", name |-> "work",
         description |-> <<"w">>, nsfw |-> TRUE, sortOrder |-> Null])

(* The file rows. Files 1 and 2 have the same size, so ordering by size     *)
(* leaves their relative order to the database.                             *)
FileRow(f) ==
  IF f = 1 THEN
    [id |-> 1, createdAt |-> 30, hash |-> "h1", ip |-> "10.0.0.1", name |-> "b.png",
     original |-> "one.png", size |-> 5, type |-> "image/png", uuid |-> "f1",
     isS3 |-> TRUE, isWatched |-> FALSE]
  ELSE IF f = 2 THEN
    [id |-> 2, createdAt |-> 10, hash |-> "h2", ip |-> "10.0.0.2", name |-> "a.png",
     original |-> "two.png", size |-> 5, type |-> "image/png", uuid |-> "f2",
     isS3 |-> FALSE, isWatched |-> FALSE]
  ELSE
    [id |-> 3, createdAt |-> 20, hash |-> "h3", ip |-> "10.0.0.3", name |-> "c.png",
     original |-> "three.png", size |-> 1, type |-> "image/png", uuid |-> "f3",
     isS3 |-> FALSE, isWatched |-> TRUE]

(* Collation rank of the file names, for ORDER BY name *)
NameRank(n) == IF n = "a.png" THEN 1 ELSE IF n = "b.png" THEN 2 ELSE 3

SelectedFileFields ==
  {"createdAt", "hash", "ip", "name", "original", "size", "type", "uuid", "isS3",
   "isWatched"}

SelectFile(f) == [k \in SelectedFileFields |-> FileRow(f)[k]]

AlbumFileIds(a) == {f \in FileIds : fileAlbum[f] = a}

SortKey(f, field) ==
  IF field = sCreatedAt THEN FileRow(f).createdAt
  ELSE IF field = sName THEN NameRank(FileRow(f).name)
  ELSE IF field = sSize THEN FileRow(f).size
  ELSE FileRow(f).id

Ordered(p, ob) ==
  \A i, j \in 1..Len(p) :
    i < j => IF ob.direction = sAsc
             THEN SortKey(p[i], ob.field) <= SortKey(p[j], ob.field)
             ELSE SortKey(p[i], ob.field) >= SortKey(p[j], ob.field)

Orderings(S) ==
  {p \in [1..Cardinality(S) -> S] : \A i, j \in 1..Cardinality(S) : p[i] = p[j] => i = j}

(* Every order of the album's files the database may produce for ORDER BY ob *)
SortedFiles(a, ob) == {p \in Orderings(AlbumFileIds(a)) : Ordered(p, ob)}

Min(x, y) == IF x <= y THEN x ELSE y

(* OFFSET skip LIMIT take *)
Window(p, skip, take) == SubSeq(p, skip + 1, Min(Len(p), skip + take))

(* prisma.albums.findFirst({ where: { uuid, userId } }): <<row>> or <<>> *)
FindFirstAnyOwner(uuid, userId) ==
  LET match == {a \in DOMAIN albums : albums[a].uuid = uuid}
  IN IF match = {} THEN <<>>
     ELSE << albums[CHOOSE a \in match : \A b \in match : a <= b] >>

FindFirst(uuid, userId) ==
  LET match == {a \in DOMAIN albums : albums[a].uuid = uuid /\ albums[a].userId = userId}
  IN IF match = {} THEN <<>>
     ELSE << albums[CHOOSE a \in match : \A b \in match : a <= b] >>

(* files: { select, orderBy, take, skip }: the pages the database may return *)
FindFiles(a, ob, skip, take) ==
  {[i \in 1..Len(Window(p, skip, take)) |-> SelectFile(Window(p, skip, take)[i])] :
     p \in SortedFiles(a, ob)}

CountAsPageLength(a, rows) == Len(rows)

(* _count.files *)
CountFiles(a, rows) == Cardinality(AlbumFileIds(a))

(* ------------------------------------------------------------------------ *)
(* The handler                                                              *)
(* ------------------------------------------------------------------------ *)
SkipFromPage(page, limit) == page * limit

Skip(page, limit) == (page - 1) * limit

Take(limit) == limit

Queries ==
  {q \in UNION {[D -> 1..(MaxPage + MaxLimit)] : D \in SUBSET {"page", "limit"}} :
     /\ "page" \in DOMAIN q => q["page"] <= MaxPage
     /\ "limit" \in DOMAIN q => q["limit"] <= MaxLimit}

QueryPage(q) == IF "page" \in DOMAIN q THEN q["page"] ELSE DefaultPage
QueryLimit(q) == IF "limit" \in DOMAIN q THEN q["limit"] ELSE DefaultLimit

MakeArgs(uuid, user, q) ==
  [uuid |-> uuid, user |-> user, query |-> q,
   page |-> QueryPage(q), limit |-> QueryLimit(q),
   take |-> Take(QueryLimit(q)), skip |-> Skip(QueryPage(q), QueryLimit(q))]

IdleArgs ==
  [uuid |-> "", user |-> "", query |-> <<>>, page |-> 0, limit |-> 0, take |-> 0, skip |-> 0]

EffectiveGlobalFirst(albumSortOrder, globalSortOrder) ==
  IF ~Falsy(globalSortOrder) THEN globalSortOrder
  ELSE IF ~Falsy(albumSortOrder) THEN albumSortOrder
  ELSE HardcodedFallback

(* albumMeta.sortOrder || SETTINGS.defaultSortOrder || 'createdAt:desc' *)
EffectiveSortOrder(albumSortOrder, globalSortOrder) ==
  IF ~Falsy(albumSortOrder) THEN albumSortOrder
  ELSE IF ~Falsy(globalSortOrder) THEN globalSortOrder
  ELSE HardcodedFallback

(* utils/File.js constructFilePublicLink: the link of a file from its name,  *)
(* its storage backend and its watch-folder origin                          *)
constructFilePublicLink(fileName, isS3, isWatched) ==
  [url |-> [base |-> IF isS3 THEN "objectStorage" ELSE "local",
            watched |-> isWatched, fileName |-> fileName]]

PublicFilesFirstFlags(rows) ==
  [i \in 1..Len(rows) |->
     constructFilePublicLink(rows[i].name, rows[1].isS3, rows[1].isWatched) @@ rows[i]]

(* { ...modifiedFile, ...constructFilePublicLink({...}) } for each fetched row *)
PublicFiles(rows) ==
  [i \in 1..Len(rows) |->
     constructFilePublicLink(rows[i].name, rows[i].isS3, rows[i].isWatched) @@ rows[i]]

(* res.notFound('The album could not be found') *)
NotFoundResponse == [status |-> 404, body |-> [message |-> "The album could not be found"]]

SuccessResponse(album, rows) ==
  [status |-> 200,
   body |-> [message |-> "Successfully retrieved album",
             name |-> album.name,
             description |-> album.description,
             files |-> PublicFiles(rows),
             isNsfw |-> album.nsfw,
             sortOrder |-> album.sortOrder,
             count |-> CountFiles(album.id, rows)]]

RejectInvalidSort(album, rows) ==
  IF ~Falsy(album.sortOrder) /\ parseSortOrder(album.sortOrder) = defaultOrder
  THEN NotFoundResponse ELSE SuccessResponse(album, rows)

RejectPastEnd(album, rows) ==
  IF rows = <<>> /\ CountFiles(album.id, rows) > 0
  THEN NotFoundResponse ELSE SuccessResponse(album, rows)

(* What the handler sends once the second lookup found the album *)
Lookup2Response(album, rows) == SuccessResponse(album, rows)

StartRequest(r) ==
  /\ pc[r] = "idle"
  /\ \E uuid \in Uuids, user \in Users, q \in Queries :
       args' = [args EXCEPT ![r] = MakeArgs(uuid, user, q)]
  /\ pc' = [pc EXCEPT ![r] = "lookup1"]
  /\ UNCHANGED <<albumMeta, effective, orderBy, sent, storeVars, parseVars>>

Lookup1(r) ==
  /\ pc[r] = "lookup1"
  /\ LET found == FindFirst(args[r].uuid, args[r].user) IN
       IF found = <<>>
       THEN /\ sent' = [sent EXCEPT ![r] = Append(@, NotFoundResponse)]
            /\ pc' = [pc EXCEPT ![r] = "done"]
            /\ UNCHANGED <<albumMeta, effective, orderBy>>
       ELSE LET eff == EffectiveSortOrder(found[1].sortOrder, settings.defaultSortOrder) IN
            /\ albumMeta' = [albumMeta EXCEPT ![r] = <<[sortOrder |-> found[1].sortOrder]>>]
            /\ effective' = [effective EXCEPT ![r] = eff]
            /\ orderBy' = [orderBy EXCEPT ![r] = parseSortOrder(eff)]
            /\ pc' = [pc EXCEPT ![r] = "lookup2"]
            /\ UNCHANGED sent
  /\ UNCHANGED <<args, storeVars, parseVars>>

Lookup2(r) ==
  /\ pc[r] = "lookup2"
  /\ LET found == FindFirst(args[r].uuid, args[r].user) IN
       IF found = <<>>
       THEN sent' = [sent EXCEPT ![r] = Append(@, NotFoundResponse)]
       ELSE \E rows \in FindFiles(found[1].id, orderBy[r], args[r].skip, args[r].take) :
              sent' = [sent EXCEPT ![r] = Append(@, Lookup2Response(found[1], rows))]
  /\ pc' = [pc EXCEPT ![r] = "done"]
  /\ UNCHANGED <<args, albumMeta, effective, orderBy, storeVars, parseVars>>

(* The request is retired and the slot serves the next one *)
Finish(r) ==
  /\ pc[r] = "done"
  /\ pc' = [pc EXCEPT ![r] = "idle"]
  /\ args' = [args EXCEPT ![r] = IdleArgs]
  /\ albumMeta' = [albumMeta EXCEPT ![r] = <<>>]
  /\ effective' = [effective EXCEPT ![r] = Null]
  /\ orderBy' = [orderBy EXCEPT ![r] = defaultOrder]
  /\ sent' = [sent EXCEPT ![r] = <<>>]
  /\ UNCHANGED <<storeVars, parseVars>>

(* ------------------------------------------------------------------------ *)
(* Other requests, which change the store between the steps of a handler.   *)
(* The store is observed at the instant a response is sent: it changes      *)
(* again once that request is retired.                                      *)
(* ------------------------------------------------------------------------ *)
Observed == \E r \in Slots : pc[r] = "done"

DeleteAlbum(a) ==
  /\ ~Observed
  /\ a \in DOMAIN albums
  /\ albums' = [b \in DOMAIN albums \ {a} |-> albums[b]]
  /\ fileAlbum' = [f \in FileIds |-> IF fileAlbum[f] = a THEN NoAlbumId ELSE fileAlbum[f]]
  /\ UNCHANGED <<settings, reqVars, parseVars>>

UpdateAlbumSortOrder(a, s) ==
  /\ ~Observed
  /\ a \in DOMAIN albums
  /\ albums[a].sortOrder # s
  /\ albums' = [albums EXCEPT ![a].sortOrder = s]
  /\ UNCHANGED <<fileAlbum, settings, reqVars, parseVars>>

MoveFile(f, a) ==
  /\ ~Observed
  /\ a \in DOMAIN albums \cup {NoAlbumId}
  /\ fileAlbum[f] # a
  /\ fileAlbum' = [fileAlbum EXCEPT ![f] = a]
  /\ UNCHANGED <<albums, settings, reqVars, parseVars>>

(* ------------------------------------------------------------------------ *)
(* Specifications                                                           *)
(* ------------------------------------------------------------------------ *)
IdleRequests ==
  /\ pc = [r \in Slots |-> "idle"]
  /\ args = [r \in Slots |-> IdleArgs]
  /\ albumMeta = [r \in Slots |-> <<>>]
  /\ effective = [r \in Slots |-> Null]
  /\ orderBy = [r \in Slots |-> defaultOrder]
  /\ sent = [r \in Slots |-> <<>>]

Init ==
  /\ albums = InitAlbums
  /\ fileAlbum = [f \in FileIds |-> NoAlbumId]
  /\ settings \in {[defaultSortOrder |-> g] : g \in GlobalSortOrders}
  /\ IdleRequests
  /\ pin = Null
  /\ pout = <<>>

Next ==
  \/ StartRequest(1)
  \/ Lookup1(1)
  \/ Lookup2(1)
  \/ Finish(1)
  \/ \E a \in AlbumIds : DeleteAlbum(a)
  \/ \E a \in AlbumIds, s \in AlbumSortOrders : UpdateAlbumSortOrder(a, s)
  \/ \E f \in FileIds, a \in AlbumIds \cup {NoAlbumId} : MoveFile(f, a)

Spec == Init /\ [][Next]_vars

(* Two handlers running concurrently over a store nobody changes *)
InitPair ==
  /\ albums = InitAlbums
  /\ fileAlbum \in [FileIds -> {NoAlbumId, 1}]
  /\ settings = [defaultSortOrder |-> Undefined]
  /\ IdleRequests
  /\ pin = Null
  /\ pout = <<>>

NextPair == \E r \in Slots : StartRequest(r) \/ Lookup1(r) \/ Lookup2(r)

SpecPair == InitPair /\ [][NextPair]_vars

(* parseSortOrder applied to every input up to MaxSegments segments *)
MaxSegments == 3

Segments == {sCreatedAt, sName, sSize, sId, sAsc, sDesc, sUp, sUpperName, sEmpty}

ParseInputs ==
  {Null, Undefined} \cup
  {Join(segs) : segs \in UNION {[1..n -> Segments] : n \in 1..MaxSegments}}

InitParse ==
  /\ albums = InitAlbums
  /\ fileAlbum = [f \in FileIds |-> NoAlbumId]
  /\ settings = [defaultSortOrder |-> Undefined]
  /\ IdleRequests
  /\ pin \in ParseInputs
  /\ pout = <<>>

Parse ==
  /\ pout = <<>>
  /\ pout' = <<parseSortOrder(pin)>>
  /\ UNCHANGED <<pin, storeVars, reqVars>>

NextParse == Parse

SpecParse == InitParse /\ [][NextParse]_vars

(* ------------------------------------------------------------------------ *)
(* Properties                                                               *)
(* ------------------------------------------------------------------------ *)
Done(r) == pc[r] = "done"
Resp(r) == sent[r][1]
IsNotFound(r) == Done(r) /\ sent[r] = <<NotFoundResponse>>
IsSuccess(r) == Done(r) /\ Len(sent[r]) = 1 /\ Resp(r).status = 200
Files(r) == Resp(r).body.files

(* The albums with the requested uuid that the requesting user owns *)
Owned(r) ==
  {a \in DOMAIN albums : albums[a].uuid = args[r].uuid /\ albums[a].userId = args[r].user}

FileOfUuid(u) == CHOOSE f \in FileIds : FileRow(f).uuid = u

IsSet(s) == s \notin {Null, Undefined, sEmpty}

WellFormed == {Join(<<f, d>>) : f \in validFields, d \in validDirections}

IdDesc == [field |-> sId, direction |-> sDesc]

EnvelopeKeys == {"message", "name", "description", "isNsfw", "sortOrder", "count", "files"}

(* C1: a request for a uuid with no album owned by the caller is answered     *)
(* not-found, and a success response carries only the name, description and  *)
(* files of an album with that uuid owned by the caller.                     *)
C1_OwnershipScoped ==
  \A r \in Slots :
    Done(r) =>
      /\ Owned(r) = {} => IsNotFound(r)
      /\ IsSuccess(r) =>
           \E a \in Owned(r) :
             /\ Resp(r).body.name = albums[a].name
             /\ Resp(r).body.description = albums[a].description
             /\ \A i \in 1..Len(Files(r)) : FileOfUuid(Files(r)[i].uuid) \in AlbumFileIds(a)

C1_Witness ==
  \E r \in Slots :
    /\ IsNotFound(r)
    /\ \E a \in DOMAIN albums :
         /\ albums[a].uuid = args[r].uuid
         /\ albums[a].userId # args[r].user
         /\ AlbumFileIds(a) # {}

(* C2: parseSortOrder returns the field and direction of a string that is     *)
(* exactly 'field:direction' with both on the allow-lists, and id descending *)
(* for every other input, strings with extra ':' segments included.          *)
C2_ParseExactOrDefault ==
  pout # <<>> =>
    IF pin \in WellFormed
    THEN pout[1] = [field |-> Split(pin)[1], direction |-> Split(pin)[2]]
    ELSE pout[1] = IdDesc

(* C3: skip = (page - 1) * limit and take = limit with the defaults 1 and 50, *)
(* skip is never negative, and a success response holds at most limit files, *)
(* those at positions skip+1 .. skip+limit of the album's files in the       *)
(* resolved order.                                                          *)
C3_Pagination ==
  \A r \in Slots :
    pc[r] # "idle" =>
      LET q == args[r].query
          p == IF "page" \in DOMAIN q THEN q["page"] ELSE 1
          l == IF "limit" \in DOMAIN q THEN q["limit"] ELSE 50
      IN /\ args[r].skip = (p - 1) * l
         /\ args[r].take = l
         /\ args[r].skip >= 0
         /\ IsSuccess(r) =>
              /\ Len(Files(r)) <= l
              /\ \E a \in Owned(r) : \E full \in SortedFiles(a, orderBy[r]) :
                   /\ Len(Files(r)) =
                        Cardinality({k \in 1..Len(full) : (p - 1) * l < k /\ k <= (p - 1) * l + l})
                   /\ \A i \in 1..Len(Files(r)) :
                        Files(r)[i].uuid = FileRow(full[(p - 1) * l + i]).uuid

C3_Witness ==
  \E r \in Slots :
    /\ IsSuccess(r)
    /\ args[r].query = [page |-> 2, limit |-> 2]
    /\ args[r].skip = 2
    /\ Len(Files(r)) = 1

(* C4: count is the total number of files of the album, whatever page and    *)
(* limit are: two requests for the same unchanged album report the same      *)
(* count, also when their files arrays differ in length.                    *)
C4_CountIsTotal ==
  /\ \A r \in Slots :
       IsSuccess(r) => \E a \in Owned(r) : Resp(r).body.count = Cardinality(AlbumFileIds(a))
  /\ \A r1, r2 \in Slots :
       (/\ IsSuccess(r1) /\ IsSuccess(r2)
        /\ args[r1].uuid = args[r2].uuid /\ args[r1].user = args[r2].user)
       => Resp(r1).body.count = Resp(r2).body.count

C4_Witness ==
  \E r1, r2 \in Slots :
    /\ IsSuccess(r1) /\ IsSuccess(r2)
    /\ args[r1].uuid = args[r2].uuid /\ args[r1].user = args[r2].user
    /\ args[r1].query # args[r2].query
    /\ Len(Files(r1)) # Len(Files(r2))
    /\ Resp(r1).body.count # Len(Files(r1))
    /\ Resp(r1).body.count = 3

(* C5: the string given to parseSortOrder is the album's sortOrder when set, *)
(* else the global default when set, else 'createdAt:desc'; with both unset  *)
(* the files are ordered by createdAt descending.                           *)
C5_Precedence ==
  \A r \in Slots :
    albumMeta[r] # <<>> =>
      LET a == albumMeta[r][1].sortOrder
          g == settings.defaultSortOrder
      IN /\ IsSet(a) => effective[r] = a
         /\ (~IsSet(a) /\ IsSet(g)) => effective[r] = g
         /\ (~IsSet(a) /\ ~IsSet(g)) =>
              /\ effective[r] = Join(<<sCreatedAt, sDesc>>)
              /\ orderBy[r] = [field |-> sCreatedAt, direction |-> sDesc]
              /\ IsSuccess(r) =>
                   \A i, j \in 1..Len(Files(r)) :
                     i < j => Files(r)[i].createdAt >= Files(r)[j].createdAt
         /\ orderBy[r] = parseSortOrder(effective[r])

C5_Witness ==
  \E r \in Slots :
    /\ IsSuccess(r)
    /\ albumMeta[r] = <<[sortOrder |-> Join(<<sName, sAsc>>)]>>
    /\ settings.defaultSortOrder = Join(<<sSize, sAsc>>)
    /\ effective[r] = Join(<<sName, sAsc>>)
    /\ Len(Files(r)) = 3
    /\ Files(r)[1].uuid = "f2" /\ Files(r)[2].uuid = "f1" /\ Files(r)[3].uuid = "f3"

(* C6: a request gets exactly one response, the not-found error or the        *)
(* success envelope; not-found only when no album with the uuid is owned by  *)
(* the caller, and never because of the content of a sort-order string.      *)
C6_OneResponse ==
  \A r \in Slots :
    /\ ~Done(r) => sent[r] = <<>>
    /\ Done(r) =>
         /\ Len(sent[r]) = 1
         /\ IsNotFound(r) \/ (IsSuccess(r) /\ DOMAIN Resp(r).body = EnvelopeKeys)
         /\ IsNotFound(r) <=> Owned(r) = {}
         /\ Owned(r) # {} => IsSuccess(r)

C6_Witness ==
  \E r \in Slots :
    /\ IsSuccess(r)
    /\ albumMeta[r] = <<[sortOrder |-> Join(<<sName, sUp>>)]>>
    /\ Resp(r).body.sortOrder = Join(<<sName, sUp>>)
    /\ settings.defaultSortOrder = Join(<<sSize>>)

(* C7: every returned file carries the link built from its own name, isS3     *)
(* and isWatched, object-storage form for a file in object storage and local *)
(* form otherwise; the fetched rows come back in the same number and order   *)
(* with their other fields unchanged.                                       *)
C7_PublicLinks ==
  \A r \in Slots :
    IsSuccess(r) =>
      /\ \A i \in 1..Len(Files(r)) :
           LET file == Files(r)[i] IN
           /\ DOMAIN file = SelectedFileFields \cup {"url"}
           /\ file.url = constructFilePublicLink(file.name, file.isS3, file.isWatched).url
           /\ file.url.base = (IF FileRow(FileOfUuid(file.uuid)).isS3
                               THEN "objectStorage" ELSE "local")
           /\ file.url.fileName = FileRow(FileOfUuid(file.uuid)).name
           /\ \A k \in SelectedFileFields : file[k] = FileRow(FileOfUuid(file.uuid))[k]
      /\ \E a \in Owned(r) :
           [i \in 1..Len(Files(r)) |-> [k \in SelectedFileFields |-> Files(r)[i][k]]]
             \in FindFiles(a, orderBy[r], args[r].skip, args[r].take)

C7_Witness ==
  \E r \in Slots :
    /\ IsSuccess(r)
    /\ Len(Files(r)) = 3
    /\ Files(r)[1].uuid = "f3" /\ Files(r)[1].url.base = "local" /\ Files(r)[1].url.watched
    /\ Files(r)[2].uuid = "f2" /\ Files(r)[2].url.base = "local"
    /\ Files(r)[3].uuid = "f1" /\ Files(r)[3].url.base = "objectStorage"

(* C8: a window that starts at or past the end of an owned album of N files  *)
(* is answered with success, an empty files array and count = N.            *)
C8_PastEnd ==
  \A r \in Slots :
    Done(r) =>
      \A a \in Owned(r) :
        args[r].skip >= Cardinality(AlbumFileIds(a)) =>
          /\ IsSuccess(r)
          /\ Files(r) = <<>>
          /\ Resp(r).body.count = Cardinality(AlbumFileIds(a))

C8_Witness ==
  \E r \in Slots :
    /\ IsSuccess(r)
    /\ args[r].skip = 2
    /\ Files(r) = <<>>
    /\ Resp(r).body.count = 2

(* C9: the returned files are in the order resolved from the sortOrder that  *)
(* the same response reports, also when the album's sortOrder changes        *)
(* between the two lookups.                                                 *)
C9_OrderMatchesReported ==
  \A r \in Slots :
    IsSuccess(r) =>
      Ordered([i \in 1..Len(Files(r)) |-> FileOfUuid(Files(r)[i].uuid)],
              parseSortOrder(EffectiveSortOrder(Resp(r).body.sortOrder,
                                                settings.defaultSortOrder)))

(* C10: an album sortOrder that is set but not a well-formed allow-listed     *)
(* 'field:direction' orders by id descending without consulting the global   *)
(* default, an invalid global default used for an album without its own      *)
(* orders by id descending, and the response reports the stored sortOrder.   *)
C10_InvalidIsIdDesc ==
  \A r \in Slots :
    albumMeta[r] # <<>> =>
      LET a == albumMeta[r][1].sortOrder
          g == settings.defaultSortOrder
      IN /\ (IsSet(a) /\ a \notin WellFormed) => orderBy[r] = IdDesc
         /\ (~IsSet(a) /\ IsSet(g) /\ g \notin WellFormed) => orderBy[r] = IdDesc
         /\ IsSuccess(r) => \E b \in Owned(r) : Resp(r).body.sortOrder = albums[b].sortOrder

====
